---- MODULE Spec2Model ----
(***************************************************************************)
(* mender-stress-test-client: the fleet launcher (main), the identity and  *)
(* key lifecycle (generateClientKeys, clientAuthenticate), the per-device  *)
(* scheduler (clientScheduler), the update check (checkForNewUpdate) and   *)
(* the simulated update (performFakeUpdate) of src/main.go.                *)
(*                                                                         *)
(* One goroutine per device, numbered in launch order, plus the main       *)
(* goroutine.  Every blocking call (a sleep, a network request, the mutex) *)
(* ends a step; the unlocked accesses of checkForNewUpdate to the shared   *)
(* counters are steps of their own, so that they interleave with the       *)
(* locked section of performFakeUpdate as the scheduler allows.            *)
(***************************************************************************)
EXTENDS Integers, Sequences, FiniteSets, TLC

(* ------------------------------ bounds -------------------------------- *)

\* -count: the number of devices of the fleet (flag default 100).
menderClientCount == 2

\* Updates the backend hands out in one run, fleet-wide.
MaxUpdates == 3

\* Authorization attempts of one device the backend may refuse.
MaxAuthFails == 2

\* Largest -startup_interval (seconds) of the launcher specification.
MaxSpread == 3

\* -wait: the exclusive upper end, in seconds, of a phase wait.
maxWaitSteps == 2

\* Largest -failcount.
MaxFailCount == 2

\* Size of the pool the fake MAC addresses are drawn from.
MaxMacs == 3

\* Process runs over the same keys/ directory.
MaxRuns == 2

(* ----------------------------- constants ------------------------------ *)

MacPool == 1..MaxMacs

\* A token the backend answers an authorization request with.
Tokens == {"jwt"}

\* -fail: the message of a failed update ("" switches failures off).
FailMsgs == {"", "failed, damn!"}

reportingCycleHead == <<"downloading", "installing", "rebooting">>

\* time.Second, in the nanoseconds a time.Duration counts.
Second == 1000000000

VARIABLES
    \* flags (init, main.go:55-78); an -inventory item is the number of fields
    \* strings.Split(item, ":") gives
    updateFailMsg, updateFailCount, startupInterval, substateReporting,
    inventoryItems,
    \* the failure budget (main.go:40-45)
    updatesPerformed, updatesLeftToFail, lock,
    \* the keys/ directory: dirExists, and keys maps a slot name to its PEM record
    dirExists, keys,
    \* main goroutine: its position, locals and the seconds it has slept
    mainPc, files, keysMissing, idx, newFile, clock,
    \* the process: "" while it runs, else what ended it; and the run's number
    exit, run,
    \* device goroutines, in launch order: launched[g] = [file, at]
    launched, dev,
    \* the backend: updates handed out so far in this run
    handedOut,
    \* history: the outcomes decided in this run, in the order of decision, and
    \* issued[m]: the key generated for the identity with MAC m, and the run that
    \* generated it (0: a run before the first)
    outcomes, issued

flagVars == <<updateFailMsg, updateFailCount, startupInterval, substateReporting,
              inventoryItems>>
budgetVars == <<updatesPerformed, updatesLeftToFail, lock>>
diskVars == <<dirExists, keys>>
mainVars == <<mainPc, files, keysMissing, idx, newFile, clock>>
vars == <<flagVars, budgetVars, diskVars, mainVars, exit, run, launched, dev,
          handedOut, outcomes, issued>>

(* ------------------- identity storage (keys/ directory) ---------------- *)

RECURSIVE SortedSeq(_)
\* filepath.Glob returns the matching names in lexical order.
SortedSeq(S) ==
    IF S = {} THEN <<>>
    ELSE LET m == CHOOSE x \in S : \A y \in S : x <= y
         IN  <<m>> \o SortedSeq(S \ {m})

\* A path of the keys/ directory: "keys/" + name.
KeyPath(name) == <<"keys", name>>
\* filepath.Base and filepath.Dir of such a path.
Base(path) == path[Len(path)]
Dir(path) == path[1]

\* filepath.Glob("keys/**"): the paths of the identity records, none when the
\* directory does not exist (the error is dropped).
Glob ==
    IF dirExists
    THEN LET names == SortedSeq(DOMAIN keys)
         IN  [k \in 1..Len(names) |-> KeyPath(names[k])]
    ELSE <<>>

\* Keystore.Save writes the private key as a PEM block; Keystore.Load parses
\* it back, and leaves the keystore without a key (0) when the slot is absent
\* or does not hold such a block.
SerializeKey(k) == [type |-> "RSA PRIVATE KEY", der |-> k]
ParseKey(rec) == IF rec.type = "RSA PRIVATE KEY" THEN rec.der ELSE 0
\* Mutant: the keystore is given a new key instead of the stored one.
LoadGeneratesKey(dir, name) ==
    1 + Cardinality(DOMAIN keys) + Cardinality(DOMAIN issued)

Load(dir, name) ==
    IF dirExists /\ dir = "keys" /\ name \in DOMAIN keys THEN ParseKey(keys[name]) ELSE 0

\* The state of keys/ after Keystore.Save of key k under name: nothing is
\* written when the keystore holds no key or the directory is missing.
SavedKeys(name, k) ==
    IF k = 0 \/ ~dirExists THEN keys
    ELSE [m \in DOMAIN keys \cup {name} |->
            IF m = name THEN SerializeKey(k) ELSE keys[m]]

\* Keystore.Generate: a key no identity holds yet.
FreshKey ==
    LET used == {ParseKey(keys[m]) : m \in DOMAIN keys} \cup {0}
    IN  1 + CHOOSE x \in used : \A y \in used : y <= x

(* ----------------------------- the process ----------------------------- *)

Running == exit = ""

\* A device goroutine as `go clientScheduler(storeFile)` creates it.
NewDevice(storeFile) ==
    [pc |-> "start", storeFile |-> storeFile, idSrc |-> 0, key |-> 0,
     token |-> "", authFails |-> 0,
     haveUpdate |-> 0, terminal |-> "", ev |-> 0, reg |-> 0, wait |-> 0,
     sent |-> <<>>, logged |-> ""]

\* The volatile state of a process at the entry of main: init() has run and
\* main has copied -failcount into the budget (main.go:77, 92).
InitProcess ==
    /\ updatesPerformed = 0
    /\ updatesLeftToFail = updateFailCount
    /\ lock = 0
    /\ mainPc = "stat"
    /\ files = <<>>
    /\ keysMissing = 0
    /\ idx = 0
    /\ newFile = <<>>
    /\ clock = 0
    /\ exit = ""
    /\ launched = <<>>
    /\ dev = <<>>
    /\ handedOut = 0
    /\ outcomes = <<>>

\* A keys/ directory left by earlier runs with P identities, keyed 1..P.
PersistedKeys(P) == [m \in 1..P |-> SerializeKey(m)]

(* ------------------------------- main ---------------------------------- *)

\* main.go:101: an integer division of the two int flags.
delta == startupInterval \div menderClientCount

\* time.Sleep(delta * time.Second); go clientScheduler(file)
Launch(file) ==
    /\ clock' = clock + delta
    /\ launched' = Append(launched, [file |-> file, at |-> clock'])
    /\ dev' = Append(dev, NewDevice(file))

\* main.go:94-96: os.Mkdir may fail; its error is dropped.
MainStat ==
    /\ Running /\ mainPc = "stat"
    /\ IF dirExists THEN dirExists' = TRUE ELSE dirExists' \in BOOLEAN
    /\ mainPc' = "glob"
    /\ UNCHANGED <<flagVars, budgetVars, keys, files, keysMissing, idx, newFile,
                   clock, exit, run, launched, dev, handedOut, outcomes, issued>>

\* main.go:98-102
MainGlob ==
    /\ Running /\ mainPc = "glob"
    /\ files' = Glob
    /\ keysMissing' = menderClientCount - Len(files')
    /\ idx' = 0
    /\ mainPc' = IF keysMissing' <= 0 THEN "reuse" ELSE "relaunch"
    /\ UNCHANGED <<flagVars, budgetVars, diskVars, newFile, clock, exit, run,
                   launched, dev, handedOut, outcomes, issued>>

\* Mutant: the loop walks every persisted identity.
ReuseCountAllFiles == Len(files)

\* main.go:103: the bound of the loop over the persisted identities.
ReuseCount == menderClientCount

\* main.go:103-106
MainReuse ==
    /\ Running /\ mainPc = "reuse"
    /\ IF idx < ReuseCount
       THEN /\ Launch(files[idx + 1])
            /\ idx' = idx + 1
            /\ UNCHANGED mainPc
       ELSE /\ mainPc' = "reglob"
            /\ UNCHANGED <<idx, clock, launched, dev>>
    /\ UNCHANGED <<flagVars, budgetVars, diskVars, files, keysMissing, newFile,
                   exit, run, handedOut, outcomes, issued>>

\* main.go:109-114
MainRelaunch ==
    /\ Running /\ mainPc = "relaunch"
    /\ IF idx < Len(files)
       THEN /\ Launch(files[idx + 1])
            /\ idx' = idx + 1
            /\ UNCHANGED mainPc
       ELSE /\ mainPc' = "generate"
            /\ UNCHANGED <<idx, clock, launched, dev>>
    /\ UNCHANGED <<flagVars, budgetVars, diskVars, files, keysMissing, newFile,
                   exit, run, handedOut, outcomes, issued>>

\* Mutant: the write of the record into a missing keys/ is not an error.
generateClientKeysWithoutDir(mac, ok) ==
    IF ok
    THEN /\ keys' = SavedKeys(mac, FreshKey)
         /\ issued' = issued
         /\ newFile' = KeyPath(mac)
         /\ mainPc' = "launchNew"
         /\ UNCHANGED exit
    ELSE /\ exit' = "keygen"
         /\ UNCHANGED <<keys, issued, newFile, mainPc>>

\* generateClientKeys (main.go:136-155) for the fake MAC address mac: ok says
\* whether Keystore.Generate and the write of the record succeed.
generateClientKeys(mac, ok) ==
    IF ok /\ dirExists
    THEN /\ keys' = SavedKeys(mac, FreshKey)
         /\ issued' = [m \in DOMAIN issued \cup {mac} |->
                          IF m = mac THEN [key |-> FreshKey, run |-> run]
                          ELSE issued[m]]
         /\ newFile' = KeyPath(mac)
         /\ mainPc' = "launchNew"
         /\ UNCHANGED exit
    ELSE /\ exit' = "keygen"
         /\ UNCHANGED <<keys, issued, newFile, mainPc>>

\* main.go:116-121: the fake MAC address is six random bytes; a collision with
\* an address already in use is left out.
MainGenerate ==
    /\ Running /\ mainPc = "generate"
    /\ IF keysMissing > 0
       THEN \E mac \in MacPool \ DOMAIN keys, ok \in BOOLEAN :
                generateClientKeys(mac, ok)
       ELSE /\ mainPc' = "reglob"
            /\ UNCHANGED <<keys, issued, newFile, exit>>
    /\ UNCHANGED <<flagVars, budgetVars, dirExists, files, keysMissing, idx, clock,
                   run, launched, dev, handedOut, outcomes>>

\* main.go:123-125
MainLaunchNew ==
    /\ Running /\ mainPc = "launchNew"
    /\ Launch(newFile)
    /\ keysMissing' = keysMissing - 1
    /\ mainPc' = "generate"
    /\ UNCHANGED <<flagVars, budgetVars, diskVars, files, idx, newFile, exit, run,
                   handedOut, outcomes, issued>>

\* main.go:130-133: main blocks forever (the second listing of the directory
\* is never read, and is left out).
MainBlock ==
    /\ Running /\ mainPc = "reglob"
    /\ mainPc' = "blocked"
    /\ UNCHANGED <<flagVars, budgetVars, diskVars, files, keysMissing, idx, newFile,
                   clock, exit, run, launched, dev, handedOut, outcomes, issued>>

Main ==
    \/ MainStat
    \/ MainGlob
    \/ MainReuse
    \/ MainRelaunch
    \/ MainGenerate
    \/ MainLaunchNew
    \/ MainBlock

(* ------------------------- a device goroutine -------------------------- *)

\* A request as the backend receives it.
Request(op, token, did, status, substate, msg) ==
    [op |-> op, token |-> token, did |-> did, status |-> status,
     substate |-> substate, msg |-> msg]

\* clientScheduler, main.go:158-168: client.New failing ends the process (log.Fatal).
DevStart(g) ==
    /\ Running /\ dev[g].pc = "start"
    /\ \E ok \in BOOLEAN :
          IF ok
          THEN /\ dev' = [dev EXCEPT ![g].pc = "authInit"]
               /\ UNCHANGED exit
          ELSE /\ exit' = "clientNew"
               /\ UNCHANGED dev
    /\ UNCHANGED <<flagVars, budgetVars, diskVars, mainVars, run, launched,
                   handedOut, outcomes, issued>>

\* clientAuthenticate, main.go:185-202: the identity is the base name of the
\* store file, the key is loaded from that slot and saved back; both errors
\* are dropped.
DevAuthInit(g) ==
    /\ Running /\ dev[g].pc = "authInit"
    /\ LET macAddress == Base(dev[g].storeFile)
           k == Load(Dir(dev[g].storeFile), macAddress)
       IN  /\ dev' = [dev EXCEPT ![g].pc = "authReq", ![g].idSrc = macAddress,
                                 ![g].key = k]
           /\ keys' = SavedKeys(macAddress, k)
    /\ UNCHANGED <<flagVars, budgetVars, dirExists, mainVars, exit, run, launched,
                   handedOut, outcomes, issued>>

\* Mutant: the length of the answer is not looked at.
AuthAnswerNoLengthCheck(g, resp) ==
    IF resp # "err"
    THEN dev' = [dev EXCEPT ![g].pc = "idle", ![g].token = resp, ![g].logged = ""]
    ELSE dev' = [dev EXCEPT ![g].pc = "authSleep",
                            ![g].authFails = IF @ < MaxAuthFails THEN @ + 1 ELSE @,
                            ![g].logged = "not able to authorize client"]

\* What the loop of clientAuthenticate (main.go:204-212) does with the answer
\* resp of one authorization request: "err" is an error, "" an empty token.
AuthAnswer(g, resp) ==
    IF resp # "err" /\ resp # ""
    THEN dev' = [dev EXCEPT ![g].pc = "idle", ![g].token = resp, ![g].logged = ""]
    ELSE dev' = [dev EXCEPT ![g].pc = "authSleep",
                            ![g].authFails = IF @ < MaxAuthFails THEN @ + 1 ELSE @,
                            ![g].logged = IF resp = "err"
                                          THEN "not able to authorize client" ELSE ""]

\* One authorization request: MakeAuthRequest (auth.go:11-50) fails without a
\* key, else the backend answers with an error, an empty token or a token.
DevAuthRequest(g) ==
    /\ Running /\ dev[g].pc = "authReq"
    /\ IF dev[g].key = 0
       THEN AuthAnswer(g, "err")
       ELSE \E resp \in {"err", ""} \cup Tokens : AuthAnswer(g, resp)
    /\ UNCHANGED <<flagVars, budgetVars, diskVars, mainVars, exit, run, launched,
                   handedOut, outcomes, issued>>

\* Mutant: a device refused MaxAuthFails times stops trying.
DevAuthSleepGivesUp(g) ==
    /\ Running /\ dev[g].pc = "authSleep"
    /\ dev' = [dev EXCEPT ![g].pc = IF dev[g].authFails < MaxAuthFails
                                    THEN "authReq" ELSE "gaveUp",
                          ![g].logged = ""]
    /\ UNCHANGED <<flagVars, budgetVars, diskVars, mainVars, exit, run, launched,
                   handedOut, outcomes, issued>>

\* main.go:211: time.Sleep(pollFrequency) before the next attempt.
DevAuthSleep(g) ==
    /\ Running /\ dev[g].pc = "authSleep"
    /\ dev' = [dev EXCEPT ![g].pc = "authReq", ![g].logged = ""]
    /\ UNCHANGED <<flagVars, budgetVars, diskVars, mainVars, exit, run, launched,
                   handedOut, outcomes, issued>>

\* Mutant: the token does not outlive a handler.
TakingForgetsToken(g, pc) ==
    [dev[g] EXCEPT !.pc = pc, !.token = "", !.haveUpdate = 0, !.terminal = "",
                   !.ev = 0, !.reg = 0, !.wait = 0, !.sent = <<>>, !.logged = ""]

\* The device as it takes a trigger: the locals of the last handler are gone,
\* api and token (main.go:161, 170) stay.
Taking(g, pc) ==
    [dev[g] EXCEPT !.pc = pc, !.haveUpdate = 0, !.terminal = "", !.ev = 0,
                   !.reg = 0, !.wait = 0, !.sent = <<>>, !.logged = ""]

\* Mutant: a tick is taken while the handler of the last one still runs.
SelectReadyAnytime(g) ==
    dev[g].pc \notin {"start", "authInit", "authReq", "authSleep"}

\* main.go:172-181: the handlers are called in the loop's own goroutine, which
\* is at its select only once the last handler has returned.
SelectReady(g) == dev[g].pc = "idle"

\* The select of clientScheduler (main.go:172-181) blocks until one of the two
\* tickers has a tick, and takes it: the inventory ticker's ...
DevSelectInventory(g) ==
    /\ Running /\ SelectReady(g)
    /\ dev' = [dev EXCEPT ![g] = Taking(g, "inv")]
    /\ UNCHANGED <<flagVars, budgetVars, diskVars, mainVars, exit, run, launched,
                   handedOut, outcomes, issued>>

\* ... or the update ticker's.
DevSelectUpdate(g) ==
    /\ Running /\ SelectReady(g)
    /\ dev' = [dev EXCEPT ![g] = Taking(g, "cfuRead")]
    /\ UNCHANGED <<flagVars, budgetVars, diskVars, mainVars, exit, run, launched,
                   handedOut, outcomes, issued>>

\* parseInventoryItems (main.go:346-361) indexes pair[1] of every item: an item
\* without ':' panics, which ends the process.
InventoryParses == \A k \in 1..Len(inventoryItems) : inventoryItems[k] >= 2

\* main.go:174-176 and sendInventoryUpdate (main.go:311-321).
DevInventory(g) ==
    /\ Running /\ dev[g].pc = "inv"
    /\ IF InventoryParses
       THEN /\ \E ok \in BOOLEAN :
                 dev' = [dev EXCEPT
                    ![g].pc = "idle", ![g].authFails = 0,
                    ![g].sent = Append(@, Request("inventory", dev[g].token, 0, "", "", "")),
                    ![g].logged = IF ok THEN "" ELSE "failed sending inventory with"]
            /\ UNCHANGED exit
       ELSE /\ exit' = "panic"
            /\ UNCHANGED dev
    /\ UNCHANGED <<flagVars, budgetVars, diskVars, mainVars, run, launched,
                   handedOut, outcomes, issued>>

\* checkForNewUpdate, main.go:229: the unlocked read of updatesPerformed.
ResetDue == updatesPerformed > 0 /\ updatesPerformed % menderClientCount = 0

DevCheckRead(g) ==
    /\ Running /\ dev[g].pc = "cfuRead"
    /\ dev' = [dev EXCEPT ![g].pc = IF ResetDue THEN "cfuReset" ELSE "cfuQuery",
                          ![g].authFails = 0]
    /\ UNCHANGED <<flagVars, budgetVars, diskVars, mainVars, exit, run, launched,
                   handedOut, outcomes, issued>>

\* checkForNewUpdate, main.go:230: the unlocked write of updatesLeftToFail.
DevCheckReset(g) ==
    /\ Running /\ dev[g].pc = "cfuReset"
    /\ updatesLeftToFail' = updateFailCount
    /\ dev' = [dev EXCEPT ![g].pc = "cfuQuery"]
    /\ UNCHANGED <<flagVars, updatesPerformed, lock, diskVars, mainVars, exit, run,
                   launched, handedOut, outcomes, issued>>

\* Mutant: the update is performed whatever the query returned.
AfterQueryAlwaysUpdates(haveUpdate) == "pfuLock"

\* The control after GetScheduledUpdate (main.go:240-251): haveUpdate is the
\* deployment ID of the pending update, 0 for none (nil).
AfterQuery(haveUpdate) == IF haveUpdate # 0 THEN "pfuLock" ELSE "idle"

\* checkForNewUpdate, main.go:233-251: the query ends in an error, in no
\* update, or in an update with a deployment ID of its own.
DevCheckQuery(g) ==
    /\ Running /\ dev[g].pc = "cfuQuery"
    /\ \/ /\ dev' = [dev EXCEPT
                ![g].pc = AfterQuery(0),
                ![g].sent = Append(@, Request("check", dev[g].token, 0, "", "", "")),
                ![g].logged = "failed when checking for new updates with"]
          /\ UNCHANGED handedOut
       \/ /\ dev' = [dev EXCEPT
                ![g].pc = AfterQuery(0),
                ![g].sent = Append(@, Request("check", dev[g].token, 0, "", "", ""))]
          /\ UNCHANGED handedOut
       \/ /\ handedOut < MaxUpdates
          /\ handedOut' = handedOut + 1
          /\ dev' = [dev EXCEPT
                ![g].pc = AfterQuery(handedOut'),
                ![g].haveUpdate = handedOut',
                ![g].sent = Append(@, Request("check", dev[g].token, 0, "", "", ""))]
    /\ UNCHANGED <<flagVars, budgetVars, diskVars, mainVars, exit, run, launched,
                   outcomes, issued>>

\* Mutant: the mutex never blocks.
LockFreeAlways == TRUE

\* sync.Mutex: Lock blocks while another goroutine holds the mutex.
LockFree == lock = 0

\* performFakeUpdate, main.go:259
DevLock(g) ==
    /\ Running /\ dev[g].pc = "pfuLock"
    /\ LockFree
    /\ lock' = g
    /\ dev' = [dev EXCEPT ![g].pc = "pfuDecide"]
    /\ UNCHANGED <<flagVars, updatesPerformed, updatesLeftToFail, diskVars, mainVars,
                   exit, run, launched, handedOut, outcomes, issued>>

\* Mutant: the budget left is not looked at.
FailsNowWithoutBudget == Len(updateFailMsg) > 0

\* Mutant: the failure message is not looked at.
FailsNowWithoutMessage == updatesLeftToFail > 0

\* main.go:260: whether this update is to fail.
FailsNow == Len(updateFailMsg) > 0 /\ updatesLeftToFail > 0

\* performFakeUpdate, main.go:260-265: the terminal event of the reporting cycle.
DevDecide(g) ==
    /\ Running /\ dev[g].pc = "pfuDecide"
    /\ IF FailsNow
       THEN /\ dev' = [dev EXCEPT ![g].pc = "pfuIncLoad", ![g].terminal = "failure"]
            /\ updatesLeftToFail' = updatesLeftToFail - 1
            /\ outcomes' = Append(outcomes, "failure")
       ELSE /\ dev' = [dev EXCEPT ![g].pc = "pfuIncLoad", ![g].terminal = "success"]
            /\ UNCHANGED updatesLeftToFail
            /\ outcomes' = Append(outcomes, "success")
    /\ UNCHANGED <<flagVars, updatesPerformed, lock, diskVars, mainVars, exit, run,
                   launched, handedOut, issued>>

\* main.go:266, updatesPerformed += 1: the load ...
DevIncLoad(g) ==
    /\ Running /\ dev[g].pc = "pfuIncLoad"
    /\ dev' = [dev EXCEPT ![g].pc = "pfuIncStore", ![g].reg = updatesPerformed]
    /\ UNCHANGED <<flagVars, budgetVars, diskVars, mainVars, exit, run, launched,
                   handedOut, outcomes, issued>>

\* ... and the store.
DevIncStore(g) ==
    /\ Running /\ dev[g].pc = "pfuIncStore"
    /\ updatesPerformed' = dev[g].reg + 1
    /\ dev' = [dev EXCEPT ![g].pc = "pfuUnlock", ![g].reg = 0]
    /\ UNCHANGED <<flagVars, updatesLeftToFail, lock, diskVars, mainVars, exit, run,
                   launched, handedOut, outcomes, issued>>

\* Mutant: the mutex is still held when the reporting loop starts.
DevUnlockKeepsLock(g) ==
    /\ Running /\ dev[g].pc = "pfuUnlock"
    /\ dev' = [dev EXCEPT ![g].pc = "pfuSleep", ![g].ev = 1]
    /\ UNCHANGED <<flagVars, budgetVars, diskVars, mainVars, exit, run, launched,
                   handedOut, outcomes, issued>>

\* main.go:267
DevUnlock(g) ==
    /\ Running /\ dev[g].pc = "pfuUnlock"
    /\ lock' = 0
    /\ dev' = [dev EXCEPT ![g].pc = "pfuSleep", ![g].ev = 1]
    /\ UNCHANGED <<flagVars, updatesPerformed, updatesLeftToFail, diskVars, mainVars,
                   exit, run, launched, handedOut, outcomes, issued>>

\* main.go:257-265: the events of this update, in the order they are walked.
reportingCycle(g) == Append(reportingCycleHead, dev[g].terminal)

\* Mutant: the failure is reported without its log.
AfterSleepWithoutUpload(event) ==
    IF event = "downloading" THEN "pfuDownload" ELSE "pfuReport"

\* main.go:271-289: what follows the wait of an event.
AfterSleep(event) ==
    IF event = "downloading" THEN "pfuDownload"
    ELSE IF event = "failure" THEN "pfuUpload"
    ELSE "pfuReport"

\* Mutant: the upper end of the draw is included.
IntnInclusive(n) == 0..n

\* mrand.Intn(n): the values a draw can give, 0 <= r < n.
Intn(n) == 0..(n - 1)

\* main.go:270: the duration slept for the draw r, in nanoseconds.
SleepDuration(r) == 15 + r * Second

\* main.go:270: time.Sleep(15 + time.Duration(mrand.Intn(maxWaitSteps))*time.Second);
\* wait is the duration slept for the event at hand.
DevSleep(g) ==
    /\ Running /\ dev[g].pc = "pfuSleep"
    /\ \E r \in Intn(maxWaitSteps) :
          dev' = [dev EXCEPT ![g].pc = AfterSleep(reportingCycle(g)[dev[g].ev]),
                             ![g].wait = SleepDuration(r), ![g].logged = ""]
    /\ UNCHANGED <<flagVars, budgetVars, diskVars, mainVars, exit, run, launched,
                   handedOut, outcomes, issued>>

\* main.go:271-275 and downloadToDevNull: an error is logged and nothing else.
DevDownload(g) ==
    /\ Running /\ dev[g].pc = "pfuDownload"
    /\ \E ok \in BOOLEAN :
          dev' = [dev EXCEPT
             ![g].pc = "pfuReport",
             ![g].sent = Append(@, Request("download", "", dev[g].haveUpdate, "", "", "")),
             ![g].logged = IF ok THEN "" ELSE "failed to download update"]
    /\ UNCHANGED <<flagVars, budgetVars, diskVars, mainVars, exit, run, launched,
                   handedOut, outcomes, issued>>

\* main.go:280-283: the log of deployment did, its one message the text msg
\* set into the JSON frame of the Sprintf.
LogData(did, msg) ==
    [DeploymentID |-> did,
     Messages |-> <<[level |-> "debug", message |-> msg,
                     timestamp |-> "2012-11-01T22:08:41+00:00"]>>]

\* Mutant: an upload that fails is logged and the update goes on.
AfterUploadContinues(ok) == "pfuReport"

\* main.go:285-288: an upload that fails returns from performFakeUpdate.
AfterUpload(ok) == IF ok THEN "pfuReport" ELSE "idle"

\* main.go:277-289: the log of a failed update; an upload error ends the update.
DevUpload(g) ==
    /\ Running /\ dev[g].pc = "pfuUpload"
    /\ \E ok \in BOOLEAN :
          dev' = [dev EXCEPT
             ![g].pc = AfterUpload(ok),
             ![g].wait = IF AfterUpload(ok) = "idle" THEN 0 ELSE @,
             ![g].sent = Append(@, Request("log", dev[g].token, dev[g].haveUpdate, "", "",
                                           LogData(dev[g].haveUpdate, updateFailMsg).Messages)),
             ![g].logged = IF ok THEN "" ELSE "failed to deliver fail logs to backend"]
    /\ UNCHANGED <<flagVars, budgetVars, diskVars, mainVars, exit, run, launched,
                   handedOut, outcomes, issued>>

\* main.go:291-300
Substate(event) ==
    IF event = "downloading" THEN "running predownload script"
    ELSE IF event = "installing" THEN "running preinstalling script"
    ELSE IF event = "rebooting" THEN "running prerebooting script"
    ELSE ""

\* Mutant: the loop does not move on to the next event.
AfterReportRepeats(g) == [pc |-> "pfuSleep", ev |-> dev[g].ev]

\* main.go:269, 308-309: the next event of the range loop, or the return.
AfterReport(g) ==
    IF dev[g].ev < Len(reportingCycle(g))
    THEN [pc |-> "pfuSleep", ev |-> dev[g].ev + 1]
    ELSE [pc |-> "idle", ev |-> dev[g].ev]

\* Mutant: a report that fails ends the update.
AfterReportErrorReturns(g) == [pc |-> "idle", ev |-> dev[g].ev]

\* main.go:305-307: a report that fails is logged, and the loop goes on as
\* after one that succeeds.
AfterReportError(g) == AfterReport(g)

\* main.go:302-307: the status report of the event; an error is logged.
DevReport(g) ==
    /\ Running /\ dev[g].pc = "pfuReport"
    /\ LET event == reportingCycle(g)[dev[g].ev]
       IN  \E ok \in BOOLEAN :
             dev' = [dev EXCEPT
                ![g].pc = IF ok THEN AfterReport(g).pc ELSE AfterReportError(g).pc,
                ![g].ev = IF ok THEN AfterReport(g).ev ELSE AfterReportError(g).ev,
                ![g].wait = 0,
                ![g].sent = Append(@, Request("status", dev[g].token, dev[g].haveUpdate,
                                              event, Substate(event), "")),
                ![g].logged = IF ok THEN "" ELSE "error reporting update status"]
    /\ UNCHANGED <<flagVars, budgetVars, diskVars, mainVars, exit, run, launched,
                   handedOut, outcomes, issued>>

(* --------------------------- specifications ---------------------------- *)

\* The process is killed and started again over the same keys/ directory,
\* with the same flags.
Restart ==
    /\ run < MaxRuns
    /\ run' = run + 1
    /\ updatesPerformed' = 0
    /\ updatesLeftToFail' = updateFailCount
    /\ lock' = 0
    /\ mainPc' = "stat"
    /\ files' = <<>>
    /\ keysMissing' = 0
    /\ idx' = 0
    /\ newFile' = <<>>
    /\ clock' = 0
    /\ exit' = ""
    /\ launched' = <<>>
    /\ dev' = <<>>
    /\ handedOut' = 0
    /\ outcomes' = <<>>
    /\ UNCHANGED <<flagVars, diskVars, issued>>

\* The flags of a run: -fail and -failcount in every combination with the
\* other flags at their defaults, and the defaults with -substate set or with
\* an -inventory item that has no ':'.
FleetFlags ==
    {[fail |-> m, failcount |-> c, substate |-> FALSE, inventory |-> <<2, 2>>] :
        m \in FailMsgs, c \in 0..MaxFailCount}
    \cup {[fail |-> "failed, damn!", failcount |-> 1, substate |-> TRUE,
           inventory |-> <<2, 2>>],
          [fail |-> "failed, damn!", failcount |-> 1, substate |-> FALSE,
           inventory |-> <<2, 1>>]}

InitFlags(f, S) ==
    /\ updateFailMsg = f.fail
    /\ updateFailCount = f.failcount
    /\ substateReporting = f.substate
    /\ inventoryItems = f.inventory
    /\ startupInterval = S

\* keys/ as earlier runs left it: missing (P = -1), or holding P identities.
InitDisk(P) ==
    /\ dirExists = (P >= 0)
    /\ keys = PersistedKeys(P)
    /\ issued = [m \in 1..P |-> [key |-> m, run |-> 0]]

\* The fleet: one run, all devices launched at once, over a keys/ directory
\* that holds fewer identities than the fleet needs, or more.
Init ==
    /\ \E f \in FleetFlags : InitFlags(f, 0)
    /\ \E P \in {menderClientCount - 1, menderClientCount + 1} : InitDisk(P)
    /\ run = 1
    /\ InitProcess

Next ==
    \/ Main
    \/ \E g \in 1..Len(dev) : DevStart(g)
    \/ \E g \in 1..Len(dev) : DevAuthInit(g)
    \/ \E g \in 1..Len(dev) : DevAuthRequest(g)
    \/ \E g \in 1..Len(dev) : DevAuthSleep(g)
    \/ \E g \in 1..Len(dev) : DevSelectInventory(g)
    \/ \E g \in 1..Len(dev) : DevSelectUpdate(g)
    \/ \E g \in 1..Len(dev) : DevInventory(g)
    \/ \E g \in 1..Len(dev) : DevCheckRead(g)
    \/ \E g \in 1..Len(dev) : DevCheckReset(g)
    \/ \E g \in 1..Len(dev) : DevCheckQuery(g)
    \/ \E g \in 1..Len(dev) : DevLock(g)
    \/ \E g \in 1..Len(dev) : DevDecide(g)
    \/ \E g \in 1..Len(dev) : DevIncLoad(g)
    \/ \E g \in 1..Len(dev) : DevIncStore(g)
    \/ \E g \in 1..Len(dev) : DevUnlock(g)
    \/ \E g \in 1..Len(dev) : DevSleep(g)
    \/ \E g \in 1..Len(dev) : DevDownload(g)
    \/ \E g \in 1..Len(dev) : DevUpload(g)
    \/ \E g \in 1..Len(dev) : DevReport(g)

Spec == Init /\ [][Next]_vars

\* Any step of the goroutine of device g, once it is launched.
DevStep(g) ==
    /\ g \in 1..Len(dev)
    /\ \/ DevStart(g) \/ DevAuthInit(g) \/ DevAuthRequest(g) \/ DevAuthSleep(g)
       \/ DevSelectInventory(g) \/ DevSelectUpdate(g) \/ DevInventory(g)
       \/ DevCheckRead(g) \/ DevCheckReset(g) \/ DevCheckQuery(g)
       \/ DevLock(g) \/ DevDecide(g) \/ DevIncLoad(g) \/ DevIncStore(g)
       \/ DevUnlock(g) \/ DevSleep(g) \/ DevDownload(g) \/ DevUpload(g)
       \/ DevReport(g)

\* The authorization request of device g that the backend answers with a token.
AuthGranted(g) ==
    /\ g \in 1..Len(dev)
    /\ DevAuthRequest(g)
    /\ dev'[g].pc = "idle"

\* lock.Lock() of device g returning.
LockTaken(g) == g \in 1..Len(dev) /\ DevLock(g)

\* The fleet with failures switched on, over a keys/ directory that holds
\* more identities than the fleet needs.
InitFair ==
    /\ InitFlags([fail |-> "failed, damn!", failcount |-> 1, substate |-> FALSE,
                  inventory |-> <<2, 2>>], 0)
    /\ InitDisk(menderClientCount + 1)
    /\ run = 1
    /\ InitProcess

\* Next without the steps of main that generate identities, which a
\* directory with enough of them never leads to.
NextFair ==
    \/ MainStat
    \/ MainGlob
    \/ MainReuse
    \/ MainBlock
    \/ \E g \in 1..Len(dev) : DevStart(g)
    \/ \E g \in 1..Len(dev) : DevAuthInit(g)
    \/ \E g \in 1..Len(dev) : DevAuthRequest(g)
    \/ \E g \in 1..Len(dev) : DevAuthSleep(g)
    \/ \E g \in 1..Len(dev) : DevSelectInventory(g)
    \/ \E g \in 1..Len(dev) : DevSelectUpdate(g)
    \/ \E g \in 1..Len(dev) : DevInventory(g)
    \/ \E g \in 1..Len(dev) : DevCheckRead(g)
    \/ \E g \in 1..Len(dev) : DevCheckReset(g)
    \/ \E g \in 1..Len(dev) : DevCheckQuery(g)
    \/ \E g \in 1..Len(dev) : DevLock(g)
    \/ \E g \in 1..Len(dev) : DevDecide(g)
    \/ \E g \in 1..Len(dev) : DevIncLoad(g)
    \/ \E g \in 1..Len(dev) : DevIncStore(g)
    \/ \E g \in 1..Len(dev) : DevUnlock(g)
    \/ \E g \in 1..Len(dev) : DevSleep(g)
    \/ \E g \in 1..Len(dev) : DevDownload(g)
    \/ \E g \in 1..Len(dev) : DevUpload(g)
    \/ \E g \in 1..Len(dev) : DevReport(g)

\* Every goroutine that can run does run (the Go scheduler preempts), every
\* sleep and every request returns, a goroutine waiting in lock.Lock() gets
\* the mutex when it is free again and again (sync.Mutex hands over to a
\* starving waiter), and the backend does not refuse a device for ever.
Fairness ==
    /\ WF_vars(Main)
    /\ \A g \in 1..menderClientCount :
          /\ WF_vars(DevStep(g))
          /\ SF_vars(LockTaken(g))
          /\ SF_vars(AuthGranted(g))

SpecFair == InitFair /\ [][NextFair]_vars /\ Fairness

\* The launcher and the identities: every startup spread, every keys/
\* directory, and a second run over what the first one left.  The devices
\* are followed until they hold their identity.
InitLaunch ==
    /\ \E S \in 0..MaxSpread :
          InitFlags([fail |-> "failed, damn!", failcount |-> 1, substate |-> FALSE,
                     inventory |-> <<2, 2>>], S)
    /\ \E P \in -1..(menderClientCount + 1) : InitDisk(P)
    /\ run = 1
    /\ InitProcess

NextLaunch ==
    \/ Main
    \/ \E g \in 1..Len(dev) : DevStart(g)
    \/ \E g \in 1..Len(dev) : DevAuthInit(g)
    \/ Restart

SpecLaunch == InitLaunch /\ [][NextLaunch]_vars

(* ------------------------------ claims --------------------------------- *)

\* The failures among the decisions i .. i + menderClientCount - 1 of this run.
FailuresInWindow(i) ==
    Cardinality({k \in i..(i + menderClientCount - 1) : outcomes[k] = "failure"})

\* C1: with a failure message and a failure target of at most the fleet size,
\* every window of fleet-size consecutive decisions holds exactly the target
\* number of failures.
C1_ExactFailuresPerWindow ==
    (Len(updateFailMsg) > 0 /\ updateFailCount <= menderClientCount) =>
        \A i \in 1..(Len(outcomes) - menderClientCount + 1) :
            FailuresInWindow(i) = updateFailCount

\* C2: a decision taken while updatesPerformed is a positive multiple of the
\* fleet size finds updatesLeftToFail reset to the target.
C2_ResetBeforeNextDecision ==
    [][(Len(outcomes') > Len(outcomes) /\ ResetDue) =>
          updatesLeftToFail = updateFailCount]_vars

\* The devices between their decision and the store of their increment.
Incrementing == {g \in 1..Len(dev) : dev[g].pc \in {"pfuIncLoad", "pfuIncStore"}}

\* C3: updatesPerformed counts the decisions, each exactly once (those whose
\* increment is under way excepted), and never decreases.
C3_CountsEveryDecisionOnce ==
    [][/\ updatesPerformed' + Cardinality(Incrementing') = Len(outcomes')
       /\ updatesPerformed' >= updatesPerformed]_vars

\* C3 witness: the backend's updates are all decided and counted, and two
\* devices are walking their updates at the same time.
C3_Witness ==
    /\ updatesPerformed = MaxUpdates
    /\ Len(outcomes) = MaxUpdates
    /\ \E g, h \in 1..Len(dev) :
          g # h /\ dev[g].terminal # "" /\ dev[h].terminal # ""

\* C4: consecutive launches are at least startupInterval / menderClientCount
\* seconds apart, so the last device of the fleet is launched no earlier than
\* (menderClientCount - 1) * startupInterval / menderClientCount seconds after
\* the first (the quotients are exact: both sides are multiplied out).
C4_LaunchesSpreadOverInterval ==
    /\ \A k \in 1..(Len(launched) - 1) :
          menderClientCount * (launched[k + 1].at - launched[k].at) >= startupInterval
    /\ Len(launched) = menderClientCount =>
          menderClientCount * (launched[menderClientCount].at - launched[1].at)
             >= (menderClientCount - 1) * startupInterval

\* The positions of a device before clientAuthenticate has returned.
Unauthenticated == {"start", "authInit", "authReq", "authSleep"}

\* C5: a device that has left clientAuthenticate holds a non-empty token that
\* an authorization request returned without error, every inventory submit and
\* update check carries it, and a device still in clientAuthenticate has sent
\* neither.
C5_NoTrafficBeforeAuthorized ==
    \A g \in 1..Len(dev) :
        /\ dev[g].pc \in Unauthenticated => dev[g].sent = <<>> /\ dev[g].token = ""
        /\ dev[g].pc \notin Unauthenticated => dev[g].token \in Tokens
        /\ \A k \in 1..Len(dev[g].sent) :
              dev[g].sent[k].op \in {"inventory", "check"} =>
                 dev[g].sent[k].token \in Tokens

\* C5 witness: a device refused twice has been authorized and has taken its
\* first trigger.
C5_Witness ==
    \E g \in 1..Len(dev) :
        /\ dev[g].authFails = 2
        /\ dev[g].pc \in {"inv", "cfuRead"}
        /\ dev[g].token \in Tokens

\* C6: an update check that yields no update (an empty answer or an error)
\* returns to the select of the scheduler with the check as the only request of
\* the cycle, and leaves the failure budget and the decided outcomes alone.
C6_NoUpdateNoSimulation ==
    [][\A g \in 1..Len(dev) :
          (dev[g].pc = "cfuQuery" /\ dev'[g] # dev[g] /\ dev'[g].haveUpdate = 0) =>
             /\ dev'[g].pc = "idle"
             /\ Len(dev'[g].sent) = 1 /\ dev'[g].sent[1].op = "check"
             /\ dev'[g].terminal = "" /\ dev'[g].ev = 0
             /\ UNCHANGED <<updatesPerformed, updatesLeftToFail, lock, outcomes>>]_vars

\* C6 witness: a device back at its select after a query error, the check its
\* only request.
C6_Witness ==
    \E g \in 1..Len(dev) :
        /\ dev[g].pc = "idle"
        /\ dev[g].logged = "failed when checking for new updates with"
        /\ Len(dev[g].sent) = 1
        /\ dev[g].haveUpdate = 0

\* The status reports among the requests of device g's current update.
StatusReports(g) == SelectSeq(dev[g].sent, LAMBDA r : r.op = "status")

\* C7: the status reports of an update are a prefix of downloading,
\* installing, rebooting, T with T success or failure, all for the update's
\* deployment ID.
C7_PhasesInOrder ==
    \A g \in 1..Len(dev) :
        LET st == StatusReports(g)
        IN  /\ Len(st) <= Len(reportingCycleHead) + 1
            /\ \A k \in 1..Len(st) :
                  /\ st[k].did = dev[g].haveUpdate
                  /\ IF k <= Len(reportingCycleHead)
                     THEN st[k].status = reportingCycleHead[k]
                     ELSE st[k].status \in {"success", "failure"}

\* C7 witness: an update reported through all four phases, ending in failure.
C7_Witness ==
    \E g \in 1..Len(dev) :
        /\ Len(StatusReports(g)) = 4
        /\ StatusReports(g)[4].status = "failure"

\* The names of the identities the run found persisted.
Persisted == {Base(files[k]) : k \in 1..Len(files)}

\* C8: once main blocks, exactly menderClientCount schedulers were started:
\* the first menderClientCount persisted identities and no new one, or all
\* the persisted ones followed by new, persisted identities for the shortfall.
C8_LaunchesExactlyFleet ==
    mainPc = "blocked" =>
        LET P == Len(files)
            N == menderClientCount
        IN  /\ Len(launched) = N
            /\ IF P >= N
               THEN /\ \A k \in 1..N : launched[k].file = files[k]
                    /\ DOMAIN keys = Persisted
               ELSE /\ \A k \in 1..P : launched[k].file = files[k]
                    /\ \A k \in (P + 1)..N :
                          Base(launched[k].file) \in DOMAIN keys \ Persisted
                    /\ \A j, k \in (P + 1)..N :
                          j # k => launched[j].file # launched[k].file
                    /\ Cardinality(DOMAIN keys) = N

\* C8 witness: main blocks after relaunching one persisted identity and
\* generating the other.
C8_Witness ==
    /\ mainPc = "blocked"
    /\ Len(files) = 1
    /\ Len(launched) = menderClientCount
    /\ Cardinality(DOMAIN keys) = menderClientCount

C10_OnlyStartupErrorsAreFatal == exit \in {"", "mkdir", "keygen"}

\* The requests a device sends with its token (the download of the artifact
\* is a plain GET of the update's URI).
Authorized == {"inventory", "check", "status", "log"}

\* C11: a device that has left clientAuthenticate never goes back to it (it
\* issues no further authorization request), its token never changes, and
\* every inventory submit, update check, status report and log upload it has
\* sent carries that token.
C11_TokenObtainedOnce ==
    [][\A g \in 1..Len(dev) :
          dev[g].pc \notin Unauthenticated =>
             /\ dev'[g].pc \notin Unauthenticated
             /\ dev'[g].token = dev[g].token
             /\ \A k \in 1..Len(dev'[g].sent) :
                   dev'[g].sent[k].op \in Authorized =>
                      dev'[g].sent[k].token = dev[g].token]_vars

\* C11 witness: a device has sent, with its token, an update check, three
\* status reports and the log of a failed update.
C11_Witness ==
    \E g \in 1..Len(dev) :
        /\ dev[g].token \in Tokens
        /\ Len(dev[g].sent) = 6
        /\ dev[g].sent[1].op = "check"
        /\ dev[g].sent[6].op = "log"
        /\ dev[g].sent[6].token = dev[g].token

\* The positions of a device between the wait of a phase and its report.
Waited == {"pfuDownload", "pfuUpload", "pfuReport"}

\* C12: a device about to report a phase (or to download or upload for it)
\* has slept for that phase, for at least 0 and less than maxWaitSteps
\* seconds.
C12_WaitsBelowMaxWait ==
    \A g \in 1..Len(dev) :
        /\ dev[g].pc \in Waited =>
              /\ dev[g].wait > 0
              /\ dev[g].wait \div Second < maxWaitSteps
        /\ dev[g].wait >= 0

\* C12 witness: a device about to report its terminal phase has slept for
\* the longest wait there is.
C12_Witness ==
    \E g \in 1..Len(dev) :
        /\ dev[g].pc = "pfuReport"
        /\ dev[g].ev = Len(reportingCycleHead) + 1
        /\ dev[g].wait = SleepDuration(maxWaitSteps - 1)

\* The positions whose step reads or writes updatesPerformed or
\* updatesLeftToFail: main.go:229, 230, 260-265, 266.
CounterAccess == {"cfuRead", "cfuReset", "pfuDecide", "pfuIncLoad", "pfuIncStore"}

\* C13: a device that reads or writes one of the two counters holds the lock
\* while it does.
C13_CountersOnlyUnderLock ==
    [][\A g \in 1..Len(dev) :
          (dev[g].pc \in CounterAccess /\ dev'[g] # dev[g]) => lock = g]_vars

\* C14: the step that decides an update comes before any status report of
\* it, makes it a failure exactly when the failure message is non-empty and
\* updatesLeftToFail is positive, and then takes one from updatesLeftToFail,
\* which a success leaves alone; the decision is entered once per update and
\* stands until the handler returns; the terminal phase reported is the
\* decided outcome.
C14_OutcomeDecidedOnceUpFront ==
    [][\A g \in 1..Len(dev) :
          /\ (dev[g].pc = "pfuDecide" /\ dev'[g] # dev[g]) =>
                /\ dev[g].terminal = "" /\ StatusReports(g) = <<>>
                /\ Len(outcomes') = Len(outcomes) + 1
                /\ outcomes'[Len(outcomes')] = dev'[g].terminal
                /\ IF updateFailMsg # "" /\ updatesLeftToFail > 0
                   THEN /\ dev'[g].terminal = "failure"
                        /\ updatesLeftToFail' = updatesLeftToFail - 1
                   ELSE /\ dev'[g].terminal = "success"
                        /\ updatesLeftToFail' = updatesLeftToFail
          /\ (dev[g].pc # "pfuDecide" /\ dev'[g] # dev[g]) =>
                \/ dev'[g].terminal = dev[g].terminal
                \/ dev[g].pc = "idle" /\ dev'[g].terminal = ""
          /\ \A k \in 1..Len(dev'[g].sent) :
                (dev'[g].sent[k].op = "status"
                   /\ dev'[g].sent[k].status \notin
                         {reportingCycleHead[j] : j \in 1..Len(reportingCycleHead)}) =>
                      dev'[g].sent[k].status = dev[g].terminal]_vars

\* C14 witness: with a failure message configured and the budget used up, an
\* update decided a success has reported its terminal phase.
C14_Witness ==
    /\ updateFailMsg # "" /\ updateFailCount > 0 /\ updatesLeftToFail = 0
    /\ \E g \in 1..Len(dev) :
          /\ dev[g].terminal = "success"
          /\ Len(StatusReports(g)) = Len(reportingCycleHead) + 1
          /\ StatusReports(g)[Len(reportingCycleHead) + 1].status = "success"

\* C15: while keys/ is missing after main's attempt to create it, no
\* scheduler has been launched and main has not got past the generation of
\* the first key, whose only outcome is the fatal end of the process.
C15_MissingDirectoryIsFatal ==
    [][(~dirExists' /\ mainPc' # "stat") =>
          /\ Len(launched') = 0
          /\ mainPc' \in {"glob", "relaunch", "generate"}
          /\ exit' \in {"", "keygen"}
          /\ (mainPc = "generate" /\ run' = run) => exit' = "keygen"]_vars

\* C15 witness: keys/ could not be created, and the process has ended on the
\* key generation failure with no scheduler launched.
C15_Witness ==
    /\ ~dirExists
    /\ exit = "keygen"
    /\ Len(launched) = 0 /\ Len(dev) = 0

\* The positions of a device inside the reporting loop of an update.
Reporting == {"pfuSleep", "pfuDownload", "pfuUpload", "pfuReport"}

\* C16: a status report that fails is followed by the wait of the next phase
\* of the same update, or, when it was the terminal phase, by the return to
\* the scheduler; and a device in the reporting loop has sent the report of
\* every phase before the one at hand, failed or not.
C16_ReportErrorsDoNotStopUpdate ==
    [][\A g \in 1..Len(dev) :
          /\ (dev[g].pc = "pfuReport"
                 /\ dev'[g].logged = "error reporting update status") =>
                /\ dev'[g].haveUpdate = dev[g].haveUpdate
                /\ dev'[g].terminal = dev[g].terminal
                /\ IF dev[g].ev <= Len(reportingCycleHead)
                   THEN dev'[g].pc = "pfuSleep" /\ dev'[g].ev = dev[g].ev + 1
                   ELSE dev'[g].pc = "idle"
          /\ dev'[g].pc \in Reporting =>
                Len(SelectSeq(dev'[g].sent, LAMBDA r : r.op = "status"))
                   = dev'[g].ev - 1]_vars

\* C16 witness: the report of the rebooting phase has failed, and the device
\* waits for the terminal phase with three reports sent.
C16_Witness ==
    \E g \in 1..Len(dev) :
        /\ dev[g].pc = "pfuSleep"
        /\ dev[g].ev = Len(reportingCycleHead) + 1
        /\ dev[g].logged = "error reporting update status"
        /\ Len(StatusReports(g)) = Len(reportingCycleHead)

\* C17: a log upload that fails returns the device to the select of its
\* scheduler with the log as the last request of the update, after the
\* reports of the three phases before the terminal one and no other, and
\* leaves the budget and the decided outcomes as the decision made them.
C17_FailedUploadEndsUpdate ==
    [][\A g \in 1..Len(dev) :
          (dev[g].pc = "pfuUpload"
             /\ dev'[g].logged = "failed to deliver fail logs to backend") =>
             /\ dev'[g].pc = "idle"
             /\ dev'[g].terminal = "failure"
             /\ dev'[g].sent[Len(dev'[g].sent)].op = "log"
             /\ Cardinality({k \in 1..Len(dev'[g].sent) :
                                dev'[g].sent[k].op = "log"}) = 1
             /\ Len(SelectSeq(dev'[g].sent, LAMBDA r : r.op = "status"))
                   = Len(reportingCycleHead)
             /\ \A k \in 1..Len(dev'[g].sent) : dev'[g].sent[k].status # "failure"
             /\ UNCHANGED <<updatesLeftToFail, updatesPerformed, outcomes>>]_vars

\* C17 witness: a device is back at its select after a failed log upload, the
\* failure it was decided with still taken from the budget.
C17_Witness ==
    \E g \in 1..Len(dev) :
        /\ dev[g].pc = "idle"
        /\ dev[g].logged = "failed to deliver fail logs to backend"
        /\ dev[g].terminal = "failure"
        /\ updatesLeftToFail < updateFailCount

\* The places of the requests of kind op, with status st, among those of
\* device g's current handler.
Places(g, op, st) ==
    {k \in 1..Len(dev[g].sent) : dev[g].sent[k].op = op /\ dev[g].sent[k].status = st}

\* C18: a log is uploaded only for an update decided a failure, at most
\* once, after the report of the rebooting phase and before any report of
\* the failure, and it holds the update's deployment ID and the configured
\* failure message; the failure is not reported without it.
C18_LogBetweenRebootingAndFailure ==
    \A g \in 1..Len(dev) :
        /\ Cardinality(Places(g, "log", "")) <= 1
        /\ \A k \in Places(g, "log", "") :
              /\ dev[g].terminal = "failure"
              /\ dev[g].sent[k].did = dev[g].haveUpdate
              /\ dev[g].sent[k].did # 0
              /\ \E m \in 1..Len(dev[g].sent[k].msg) :
                    /\ dev[g].sent[k].msg[m].message = updateFailMsg
                    /\ updateFailMsg # ""
              /\ \E j \in Places(g, "status", "rebooting") : j < k
              /\ \A j \in Places(g, "status", "failure") : k < j
        /\ \A j \in Places(g, "status", "failure") :
              \E k \in Places(g, "log", "") : k < j
        /\ dev[g].terminal = "success" => Places(g, "log", "") = {}

\* C18 witness: the log of a failed update sits right between the report of
\* its rebooting phase and the report of its failure.
C18_Witness ==
    \E g \in 1..Len(dev) :
        \E k \in Places(g, "log", "") :
            /\ k - 1 \in Places(g, "status", "rebooting")
            /\ k + 1 \in Places(g, "status", "failure")

\* The last handler of device g has run to its end: it was no update, or the
\* update has reported its terminal phase, or its log upload has failed.
HandlerDone(g) ==
    \/ dev[g].haveUpdate = 0
    \/ Places(g, "status", dev[g].terminal) # {}
    \/ dev[g].logged = "failed to deliver fail logs to backend"

\* C19: a device starts an update check only from the select of its
\* scheduler, with the handler before it (an update check and the update it
\* started included) run to its end.
C19_OneCheckAtATime ==
    [][\A g \in 1..Len(dev) :
          (dev'[g].pc = "cfuRead" /\ dev'[g] # dev[g]) =>
             dev[g].pc = "idle" /\ HandlerDone(g)]_vars

\* C19 witness: the only authorized device has performed an update and has
\* started its next update check.
C19_Witness ==
    \E g \in 1..Len(dev) :
        /\ dev[g].pc = "cfuRead"
        /\ updatesPerformed > 0
        /\ \A h \in 1..Len(dev) : h # g => dev[h].pc \in Unauthenticated

\* The positions of a device inside the handler of an update-check tick.
UpdateHandling ==
    {"cfuRead", "cfuReset", "cfuQuery", "pfuLock", "pfuDecide", "pfuIncLoad",
     "pfuIncStore", "pfuUnlock"} \cup Reporting

\* C20: while the process runs, a device that handles an update-check tick
\* (an update in progress included) can take an inventory tick, and one that
\* handles an inventory tick can take an update-check tick.
C20_TriggersIndependent ==
    Running =>
        \A g \in 1..Len(dev) :
            /\ dev[g].pc \in UpdateHandling => ENABLED DevSelectInventory(g)
            /\ dev[g].pc = "inv" => ENABLED DevSelectUpdate(g)

\* The positions at which a device sleeps, waits for the backend or waits
\* for the mutex.
Blocking ==
    {"authReq", "authSleep", "inv", "cfuQuery", "pfuLock"} \cup Reporting

\* The positions between lock.Lock() and lock.Unlock(), main.go:259-267.
LockedSection == {"pfuDecide", "pfuIncLoad", "pfuIncStore", "pfuUnlock"}

\* C21: no device holds the lock while it sleeps or waits for the backend:
\* whoever holds it is inside the locked section, none of whose steps blocks,
\* so a device that never returns from a sleep or a request keeps no other
\* device from taking its next step.
C21_NoBlockingUnderLock ==
    /\ lock \in 0..Len(dev)
    /\ \A g \in 1..Len(dev) :
          /\ dev[g].pc \in Blocking => lock # g
          /\ lock = g => dev[g].pc \in LockedSection
          /\ (Running /\ dev[g].pc \in LockedSection) =>
                \/ ENABLED DevDecide(g)
                \/ ENABLED DevIncLoad(g)
                \/ ENABLED DevIncStore(g)
                \/ ENABLED DevUnlock(g)

\* C21 witness: one device sleeps before a phase while another holds the
\* lock and decides its outcome.
C21_Witness ==
    \E g, h \in 1..Len(dev) :
        /\ dev[g].pc = "pfuSleep"
        /\ lock = h /\ dev[h].pc = "pfuDecide"

\* C22: with -substate off, every status report carries an empty sub-state.
C22_SubstateOnlyWhenEnabled ==
    ~substateReporting =>
        \A g \in 1..Len(dev) :
            \A k \in 1..Len(dev[g].sent) :
                dev[g].sent[k].op = "status" => dev[g].sent[k].substate = ""

\* C24: updatesLeftToFail is never negative and never above -failcount.
C24_BudgetWithinTarget ==
    /\ 0 <= updatesLeftToFail
    /\ updatesLeftToFail <= updateFailCount

\* C24 witness: the largest budget is used up, the fleet's worth of updates
\* is performed, and a device is about to reset the budget without the lock.
C24_Witness ==
    /\ updateFailCount = MaxFailCount
    /\ updatesLeftToFail = 0
    /\ ResetDue
    /\ \E g \in 1..Len(dev) : dev[g].pc = "cfuReset"

\* The step of device g that decides an outcome or counts the update.
Deciding(g) ==
    /\ dev[g].pc \in {"pfuDecide", "pfuIncStore"}
    /\ dev'[g] # dev[g]

\* C25: updatesLeftToFail and updatesPerformed change only in the steps that
\* decide the outcome of an update and count it.
C25_BudgetChangesOnlyOnDecision ==
    [][(updatesLeftToFail' # updatesLeftToFail \/ updatesPerformed' # updatesPerformed)
          => \E g \in 1..Len(dev) : Deciding(g)]_vars

\* Every scheduler is launched and every device is past clientAuthenticate.
FleetActive ==
    /\ mainPc = "blocked"
    /\ \A g \in 1..Len(dev) : dev[g].pc \notin Unauthenticated

\* C23: an authorization attempt ends in the backoff wait unless it returned
\* a token, in which case the device is Active with that token; the backoff
\* wait ends in another attempt; an Active device stays Active; and under
\* fairness, from some point on every device of the fleet is Active for good
\* (or the process has ended).
C23_AuthNeverGivesUp ==
    /\ [][\A g \in 1..Len(dev) :
             /\ (dev[g].pc = "authReq" /\ dev'[g] # dev[g]) =>
                   \/ dev'[g].pc = "authSleep" /\ dev'[g].token = ""
                   \/ dev'[g].pc = "idle" /\ dev'[g].token \in Tokens
             /\ (dev[g].pc = "authSleep" /\ dev'[g] # dev[g]) =>
                   dev'[g].pc = "authReq"
             /\ dev[g].pc \notin Unauthenticated =>
                   dev'[g].pc \notin Unauthenticated]_vars
    /\ <>[](~Running \/ FleetActive)

\* C23 witness: a device refused MaxAuthFails times has got its token and is
\* at the select of its scheduler.
C23_Witness ==
    \E g \in 1..Len(dev) :
        /\ dev[g].authFails = MaxAuthFails
        /\ dev[g].pc = "idle"
        /\ dev[g].token \in Tokens

\* The positions of a device inside performFakeUpdate.
Updating == {"pfuLock"} \cup LockedSection \cup Reporting

\* C26: the step that takes a device out of the reporting loop takes it to
\* the select of its scheduler, with the terminal phase reported or the log
\* upload failed; while the process runs some goroutine can always take a
\* step; and under fairness, the backend handing out finitely many updates,
\* from some point on no update is in progress and the lock is free (or the
\* process has ended).
C26_UpdatesEndAndLockIsReleased ==
    /\ [][\A g \in 1..Len(dev) :
             (dev[g].pc \in Reporting /\ dev'[g].pc \notin Reporting) =>
                /\ dev'[g].pc = "idle"
                /\ \/ dev'[g].sent[Len(dev'[g].sent)].status = dev[g].terminal
                   \/ dev'[g].logged = "failed to deliver fail logs to backend"]_vars
    /\ [](Running => ENABLED NextFair)
    /\ <>[](~Running \/ (lock = 0 /\ \A g \in 1..Len(dev) : dev[g].pc \notin Updating))

\* C26 witness: every update the backend had is performed, the lock is free
\* and every device is back at its select, one of them after the failure
\* report of its update.
C26_Witness ==
    /\ updatesPerformed = MaxUpdates
    /\ lock = 0
    /\ \A g \in 1..Len(dev) : dev[g].pc = "idle"
    /\ \E g \in 1..Len(dev) : Places(g, "status", "failure") # {}

====
